---- MODULE Spec2Model ----
(***************************************************************************)
(* ocs2::SystemOperatingPoint<STATE_DIM, INPUT_DIM, LOGIC_RULES_T>          *)
(* (ocs2_core/initialization/SystemOperatingPoint.h): the constant          *)
(* operating point provider of the SLQ initialisation, its constructors,    *)
(* initializeModel, clone and getSystemOperatingTrajectories, together with *)
(* the caller-owned output trajectories the last one writes.                *)
(***************************************************************************)
EXTENDS Integers, Sequences, FiniteSets, TLC

\* ------------------------------------------------------------------------
\* Template parameters and the bounds of the explored universe
\* ------------------------------------------------------------------------

\* template <size_t STATE_DIM, size_t INPUT_DIM, ...>
STATE_DIM == 2
INPUT_DIM == 1

\* time stamps range over 0..MaxTime
MaxTime == 1
\* the caller's output sequences hold at most MaxPrior stale samples each
\* before the first call
MaxPrior == 1
\* a concatenating call is made only while the result stays within MaxLen
MaxLen == 4
\* partition indices range over 0..MaxPartition
MaxPartition == 1
\* number of addresses of the heap
MaxHeap == 3
\* number of concurrent execution contexts
NumContexts == 2

\* the values a vector coordinate takes
Coords == {0, 1}
Times == 0..MaxTime
Partitions == 0..MaxPartition

\* state_vector_t, input_vector_t: fixed-size vectors
state_vector_t == [1..STATE_DIM -> Coords]
input_vector_t == [1..INPUT_DIM -> Coords]

\* state_vector_t::Zero(), input_vector_t::Zero()
StateZero == [i \in 1..STATE_DIM |-> 0]
InputZero == [i \in 1..INPUT_DIM |-> 0]

\* the initial states a concurrent or paired request is seeded with
StateOnes == [i \in 1..STATE_DIM |-> 1]
SeedStates == {StateZero, StateOnes}

\* LogicRulesMachine objects owned by the caller; NoMachine before binding
LogicRulesMachines == {"lrmA", "lrmB"}
NoMachine == "none"
NoPartition == -1

\* ------------------------------------------------------------------------
\* The class
\* ------------------------------------------------------------------------

\* SystemOperatingPoint(const state_vector_t&, const input_vector_t&)
Construct(stateOperatingPoint, inputOperatingPoint) ==
    [stateOperatingPoint_ |-> stateOperatingPoint,
     inputOperatingPoint_ |-> inputOperatingPoint,
     logicRulesMachine |-> NoMachine,
     partitionIndex |-> NoPartition]

\* a default constructor that leaves the members at an arbitrary non-zero value
DefaultConstructNonZero == Construct([i \in 1..STATE_DIM |-> 1], [i \in 1..INPUT_DIM |-> 1])

\* SystemOperatingPoint() : SystemOperatingPoint(Zero(), Zero())
DefaultConstruct == Construct(StateZero, InputZero)

\* SystemOperatingTrajectoriesBase::initializeModel: stores the binding
BaseInitializeModel(self, lrm, partition) ==
    [self EXCEPT !.logicRulesMachine = lrm, !.partitionIndex = partition]

\* SystemOperatingPoint::initializeModel: delegates to the base class
initializeModel(self, lrm, partition) == BaseInitializeModel(self, lrm, partition)

\* The heap: heap[a] is the object at address a, or Free
Addresses == 1..MaxHeap
Free == [freed |-> TRUE]
HasFree(h) == \E a \in Addresses : h[a] = Free

\* operator new: the lowest free address
New(h) == CHOOSE a \in Addresses : h[a] = Free /\ \A b \in Addresses : h[b] = Free => a <= b

\* virtual ~SystemOperatingPoint() and operator delete
Delete(h, a) == [h EXCEPT ![a] = Free]

\* a clone that hands back the source object itself instead of a copy
cloneShared(h, src) == [heap |-> h, ptr |-> src]

\* a clone that builds a fresh default instance instead of copying *this
cloneDefault(h, src) == [heap |-> [h EXCEPT ![New(h)] = DefaultConstruct], ptr |-> New(h)]

\* SystemOperatingPoint::clone: new SystemOperatingPoint(*this), a new heap
\* object that is a member-wise copy of the source
clone(h, src) == [heap |-> [h EXCEPT ![New(h)] = h[src]], ptr |-> New(h)]

\* The three caller-owned output sequences
EmptyTrajectories == [timeTrajectory |-> <<>>, stateTrajectory |-> <<>>, inputTrajectory |-> <<>>]

\* variant: the concatOutput flag is ignored, samples are always appended
getAlwaysConcat(self, initialState, startTime, finalTime, out, concatOutput) ==
    [timeTrajectory |-> out.timeTrajectory \o <<startTime, finalTime>>,
     stateTrajectory |-> out.stateTrajectory \o <<self.stateOperatingPoint_, self.stateOperatingPoint_>>,
     inputTrajectory |-> out.inputTrajectory \o <<self.inputOperatingPoint_, self.inputOperatingPoint_>>]

\* variant: inputTrajectory is not cleared
getInputNotCleared(self, initialState, startTime, finalTime, out, concatOutput) ==
    LET o == IF concatOutput = FALSE
             THEN [EmptyTrajectories EXCEPT !.inputTrajectory = out.inputTrajectory]
             ELSE out
    IN [timeTrajectory |-> o.timeTrajectory \o <<startTime, finalTime>>,
        stateTrajectory |-> o.stateTrajectory \o <<self.stateOperatingPoint_, self.stateOperatingPoint_>>,
        inputTrajectory |-> o.inputTrajectory \o <<self.inputOperatingPoint_, self.inputOperatingPoint_>>]

\* variant: the output is always overwritten
getNeverConcat(self, initialState, startTime, finalTime, out, concatOutput) ==
    [timeTrajectory |-> <<startTime, finalTime>>,
     stateTrajectory |-> <<self.stateOperatingPoint_, self.stateOperatingPoint_>>,
     inputTrajectory |-> <<self.inputOperatingPoint_, self.inputOperatingPoint_>>]

\* variant: the two time stamps are emplaced in the opposite order
getTimesSwapped(self, initialState, startTime, finalTime, out, concatOutput) ==
    LET o == IF concatOutput = FALSE THEN EmptyTrajectories ELSE out
    IN [timeTrajectory |-> o.timeTrajectory \o <<finalTime, startTime>>,
        stateTrajectory |-> o.stateTrajectory \o <<self.stateOperatingPoint_, self.stateOperatingPoint_>>,
        inputTrajectory |-> o.inputTrajectory \o <<self.inputOperatingPoint_, self.inputOperatingPoint_>>]

\* variant: the first state sample is seeded with initialState
getSeededWithInitialState(self, initialState, startTime, finalTime, out, concatOutput) ==
    LET o == IF concatOutput = FALSE THEN EmptyTrajectories ELSE out
    IN [timeTrajectory |-> o.timeTrajectory \o <<startTime, finalTime>>,
        stateTrajectory |-> o.stateTrajectory \o <<initialState, self.stateOperatingPoint_>>,
        inputTrajectory |-> o.inputTrajectory \o <<self.inputOperatingPoint_, self.inputOperatingPoint_>>]

\* variant: a reversed interval is rejected, the outputs are left as they are
getRejectReversed(self, initialState, startTime, finalTime, out, concatOutput) ==
    IF startTime > finalTime THEN out
    ELSE LET o == IF concatOutput = FALSE THEN EmptyTrajectories ELSE out
         IN [timeTrajectory |-> o.timeTrajectory \o <<startTime, finalTime>>,
             stateTrajectory |-> o.stateTrajectory \o <<self.stateOperatingPoint_, self.stateOperatingPoint_>>,
             inputTrajectory |-> o.inputTrajectory \o <<self.inputOperatingPoint_, self.inputOperatingPoint_>>]

\* SystemOperatingPoint::getSystemOperatingTrajectories: the new content of
\* the three output sequences (the object itself is not written)
getSystemOperatingTrajectories(self, initialState, startTime, finalTime, out, concatOutput) ==
    LET cleared == IF concatOutput = FALSE
                   THEN [timeTrajectory |-> <<>>,
                         stateTrajectory |-> <<>>,
                         inputTrajectory |-> <<>>]
                   ELSE out
    IN [timeTrajectory |->
            Append(Append(cleared.timeTrajectory, startTime), finalTime),
        stateTrajectory |->
            Append(Append(cleared.stateTrajectory, self.stateOperatingPoint_),
                   self.stateOperatingPoint_),
        inputTrajectory |->
            Append(Append(cleared.inputTrajectory, self.inputOperatingPoint_),
                   self.inputOperatingPoint_)]


\* ------------------------------------------------------------------------
\* State
\* ------------------------------------------------------------------------

VARIABLES
    heap,        \* heap[a]: the SystemOperatingPoint object at address a, or Free
    prov,        \* prov[c]: address of the provider held by caller c (0: none)
    outs,        \* outs[c]: the output sequences caller c passes to its calls
    made,        \* made[a]: the constructor call the object at a descends from
    call,        \* the most recent member call of the single caller (Spec,
                 \* SpecPrior); in SpecPair, whether the latest paired request
                 \* passed the same initialState to both providers
    discipline   \* how the single caller has used its output sequences so far

vars == <<heap, prov, outs, made, call, discipline>>

\* constructor calls: default, or explicit with any operating point; state and
\* input are the operating point the instance is constructed to hold
CtorCalls ==
    {[how |-> "default", state |-> StateZero, input |-> InputZero, cloned |-> FALSE]} \cup
    {[how |-> "explicit", state |-> s, input |-> u, cloned |-> FALSE] :
        s \in state_vector_t, u \in input_vector_t}

Constructed(k) ==
    IF k.how = "default" THEN DefaultConstruct ELSE Construct(k.state, k.input)

NotMade == [how |-> "none", state |-> StateZero, input |-> InputZero, cloned |-> FALSE]

\* sequences of length 0..n over S
SeqsUpTo(S, n) == UNION {[1..k -> S] : k \in 0..n}

\* what the caller's output sequences may hold before the first call
PriorTrajectories ==
    {[timeTrajectory |-> t, stateTrajectory |-> x, inputTrajectory |-> u] :
        t \in SeqsUpTo(Times, MaxPrior),
        x \in SeqsUpTo(state_vector_t, MaxPrior),
        u \in SeqsUpTo(input_vector_t, MaxPrior)}

NoCall == [op |-> "none", startTime |-> 0, finalTime |-> 0, concatOutput |-> FALSE]

Max(a, b) == IF a >= b THEN a ELSE b
LongestLen(o) ==
    Max(Len(o.timeTrajectory), Max(Len(o.stateTrajectory), Len(o.inputTrajectory)))

NonDecreasing(s) == \A i \in 1..(Len(s) - 1) : s[i] <= s[i + 1]
EqualLengths(o) ==
    /\ Len(o.timeTrajectory) = Len(o.stateTrajectory)
    /\ Len(o.stateTrajectory) = Len(o.inputTrajectory)

\* the last two elements of a sequence of length >= 2
LastTwo(s) == SubSeq(s, Len(s) - 1, Len(s))

\* ------------------------------------------------------------------------
\* Spec: one provider and one caller whose output sequences start empty
\* ------------------------------------------------------------------------

InitWith(k, p) ==
    /\ heap = [a \in Addresses |-> IF a = 1 THEN Constructed(k) ELSE Free]
    /\ prov = <<1, 0>>
    /\ outs = <<p>>
    /\ made = [a \in Addresses |-> IF a = 1 THEN k ELSE NotMade]
    /\ call = NoCall
    /\ discipline = IF p = EmptyTrajectories THEN "adjacent" ELSE "none"

Init == \E k \in CtorCalls : InitWith(k, EmptyTrajectories)

\* the caller's discipline after a call (startTime, finalTime, concatOutput) on
\* the time sequence t: "adjacent" while every interval was ordered and every
\* concatenated interval started no earlier than the last stamp present,
\* "ordered" while every interval was ordered, "none" otherwise
NextDiscipline(d, t, startTime, finalTime, concatOutput) ==
    IF d = "none" \/ startTime > finalTime THEN "none"
    ELSE IF d = "adjacent" /\ (~concatOutput \/ t = <<>> \/ t[Len(t)] <= startTime)
         THEN "adjacent"
         ELSE "ordered"

\* the caller binds its provider
InitializeModel ==
    \E lrm \in LogicRulesMachines, partition \in Partitions :
        /\ heap' = [heap EXCEPT ![prov[1]] = initializeModel(heap[prov[1]], lrm, partition)]
        /\ call' = [NoCall EXCEPT !.op = "initializeModel"]
        /\ UNCHANGED <<prov, outs, made, discipline>>

\* the caller clones its provider and keeps the clone in place of the one it
\* held before, which it deletes
Clone ==
    /\ HasFree(heap)
    /\ LET r == clone(heap, prov[1])
       IN /\ heap' = IF prov[2] # 0 /\ prov[2] # r.ptr THEN Delete(r.heap, prov[2]) ELSE r.heap
          /\ prov' = [prov EXCEPT ![2] = r.ptr]
          /\ made' = [a \in Addresses |->
                        IF a = r.ptr THEN [made[prov[1]] EXCEPT !.cloned = TRUE]
                        ELSE IF a = prov[2] THEN NotMade ELSE made[a]]
    /\ call' = [NoCall EXCEPT !.op = "clone"]
    /\ UNCHANGED <<outs, discipline>>

\* the caller requests a trajectory into its output sequences
GetSystemOperatingTrajectories ==
    \E initialState \in state_vector_t, startTime \in Times, finalTime \in Times,
       concatOutput \in BOOLEAN :
        /\ concatOutput => LongestLen(outs[1]) + 2 <= MaxLen
        /\ outs' = [outs EXCEPT ![1] =
                getSystemOperatingTrajectories(heap[prov[1]], initialState,
                    startTime, finalTime, outs[1], concatOutput)]
        /\ call' = [op |-> "get", startTime |-> startTime, finalTime |-> finalTime,
                    concatOutput |-> concatOutput]
        /\ discipline' = NextDiscipline(discipline, outs[1].timeTrajectory,
                                        startTime, finalTime, concatOutput)
        /\ UNCHANGED <<heap, prov, made>>

Next == InitializeModel \/ Clone \/ GetSystemOperatingTrajectories

Spec == Init /\ [][Next]_vars

\* ------------------------------------------------------------------------
\* SpecPrior: one provider and one caller whose output sequences hold
\* arbitrary stale content before the first call
\* ------------------------------------------------------------------------

InitPrior == \E k \in CtorCalls, p \in PriorTrajectories : InitWith(k, p)

NextPrior == GetSystemOperatingTrajectories

SpecPrior == InitPrior /\ [][NextPrior]_vars


\* ------------------------------------------------------------------------
\* SpecClone: NumContexts concurrent execution contexts.  Context 1 holds
\* the constructed provider; every other context is handed a clone of some
\* context's provider, in the order of the contexts.  Context c serves
\* partition c - 1, the interval [c - 1, c]: it requests the whole interval
\* or the degenerate one at its start, into its own output sequences.
\* ------------------------------------------------------------------------

Contexts == 1..NumContexts
PartitionStart(c) == c - 1
PartitionEnds(c) == {c - 1, c}

InitClone ==
    \E k \in CtorCalls :
        /\ heap = [a \in Addresses |-> IF a = 1 THEN Constructed(k) ELSE Free]
        /\ prov = [c \in Contexts |-> IF c = 1 THEN 1 ELSE 0]
        /\ outs = [c \in Contexts |-> EmptyTrajectories]
        /\ made = [a \in Addresses |-> IF a = 1 THEN k ELSE NotMade]
        /\ call = NoCall
        /\ discipline = "none"

\* the framework clones the provider of context c for context d
CtxClone ==
    \E c \in Contexts, d \in Contexts :
        /\ prov[c] # 0
        /\ prov[d] = 0
        /\ \A e \in Contexts : e < d => prov[e] # 0
        /\ HasFree(heap)
        /\ LET r == clone(heap, prov[c])
           IN /\ heap' = r.heap
              /\ prov' = [prov EXCEPT ![d] = r.ptr]
              /\ made' = [made EXCEPT ![r.ptr] =
                            [how |-> made[prov[c]].how,
                             state |-> heap[prov[c]].stateOperatingPoint_,
                             input |-> heap[prov[c]].inputOperatingPoint_,
                             cloned |-> TRUE]]
        /\ UNCHANGED <<outs, call, discipline>>

\* context c binds its provider to a logic rules machine for its partition
CtxInitializeModel ==
    \E c \in Contexts, lrm \in LogicRulesMachines :
        /\ prov[c] # 0
        /\ heap' = [heap EXCEPT ![prov[c]] = initializeModel(heap[prov[c]], lrm, c - 1)]
        /\ UNCHANGED <<prov, outs, made, call, discipline>>

\* context c requests a trajectory over a sub-interval of its partition
CtxGetSystemOperatingTrajectories ==
    \E c \in Contexts, initialState \in SeedStates, concatOutput \in BOOLEAN :
        \E startTime \in {PartitionStart(c)}, finalTime \in PartitionEnds(c) :
            /\ prov[c] # 0
            /\ concatOutput => LongestLen(outs[c]) + 2 <= MaxLen
            /\ outs' = [outs EXCEPT ![c] =
                    getSystemOperatingTrajectories(heap[prov[c]], initialState,
                        startTime, finalTime, outs[c], concatOutput)]
            /\ UNCHANGED <<heap, prov, made, call, discipline>>

NextClone == CtxClone \/ CtxInitializeModel \/ CtxGetSystemOperatingTrajectories

SpecClone == InitClone /\ [][NextClone]_vars

\* ------------------------------------------------------------------------
\* SpecPair: two providers constructed to hold the same operating point are
\* driven side by side: the same trajectory requests go to both, with
\* initial states chosen independently, and each is bound (or not) on its
\* own.
\* ------------------------------------------------------------------------

PairCtors ==
    {p \in CtorCalls \X CtorCalls : p[1].state = p[2].state /\ p[1].input = p[2].input}

InitPair ==
    \E p \in PairCtors :
        /\ heap = [a \in Addresses |->
                     IF a = 1 THEN Constructed(p[1])
                     ELSE IF a = 2 THEN Constructed(p[2]) ELSE Free]
        /\ prov = <<1, 2>>
        /\ outs = <<EmptyTrajectories, EmptyTrajectories>>
        /\ made = [a \in Addresses |-> IF a = 1 THEN p[1] ELSE IF a = 2 THEN p[2] ELSE NotMade]
        /\ call = [op |-> "none", sameInitialState |-> TRUE]
        /\ discipline = "none"

\* one of the two providers is bound, or bound again
PairInitializeModel ==
    \E i \in 1..2, lrm \in LogicRulesMachines, partition \in Partitions :
        /\ heap' = [heap EXCEPT ![prov[i]] = initializeModel(heap[prov[i]], lrm, partition)]
        /\ UNCHANGED <<prov, outs, made, call, discipline>>

\* each provider is replaced by its clone (once)
PairClone ==
    /\ HasFree(heap)
    /\ ~made[prov[1]].cloned
    /\ LET r1 == clone(heap, prov[1])
           h1 == Delete(r1.heap, prov[1])
           r2 == clone(h1, prov[2])
           h2 == Delete(r2.heap, prov[2])
       IN /\ heap' = h2
          /\ prov' = <<r1.ptr, r2.ptr>>
          /\ made' = [a \in Addresses |->
                        IF a = r2.ptr THEN [made[prov[2]] EXCEPT !.cloned = TRUE]
                        ELSE IF a = r1.ptr THEN [made[prov[1]] EXCEPT !.cloned = TRUE]
                        ELSE NotMade]
    /\ UNCHANGED <<outs, call, discipline>>

\* the same request goes to both providers, each with its own initialState
PairGetSystemOperatingTrajectories ==
    \E xa \in SeedStates, xb \in SeedStates, startTime \in Times,
       finalTime \in Times, concatOutput \in BOOLEAN :
        /\ concatOutput => LongestLen(outs[1]) + 2 <= MaxLen
        /\ outs' = <<getSystemOperatingTrajectories(heap[prov[1]], xa,
                        startTime, finalTime, outs[1], concatOutput),
                     getSystemOperatingTrajectories(heap[prov[2]], xb,
                        startTime, finalTime, outs[2], concatOutput)>>
        /\ call' = [op |-> "get", sameInitialState |-> (xa = xb)]
        /\ UNCHANGED <<heap, prov, made, discipline>>

NextPair == PairInitializeModel \/ PairClone \/ PairGetSystemOperatingTrajectories

SpecPair == InitPair /\ [][NextPair]_vars


\* ------------------------------------------------------------------------
\* Properties
\* ------------------------------------------------------------------------

\* the two samples a call emits for the provider at address a, from the
\* operating point it was constructed to hold
TwoStates(a) == <<made[a].state, made[a].state>>
TwoInputs(a) == <<made[a].input, made[a].input>>

\* C1 (SpecPrior): after a call with concatOutput = false and
\* startTime <= finalTime, whatever the three output sequences held before
\* (their lengths need not agree), they hold exactly two samples:
\* time = [startTime, finalTime], state = twice the state operating point,
\* input = twice the input operating point.
C1_OverwriteYieldsTwoSamples ==
    (call.op = "get" /\ ~call.concatOutput /\ call.startTime <= call.finalTime) =>
        /\ outs[1].timeTrajectory = <<call.startTime, call.finalTime>>
        /\ outs[1].stateTrajectory = TwoStates(prov[1])
        /\ outs[1].inputTrajectory = TwoInputs(prov[1])

C1_Witness ==
    /\ call.op = "get" /\ ~call.concatOutput
    /\ call.startTime < call.finalTime
    /\ made[prov[1]].how = "explicit"
    /\ made[prov[1]].state # StateZero
    /\ Len(outs[1].stateTrajectory) = 2

\* C2 (SpecPrior): a call with concatOutput = true leaves each of the three
\* sequences with its former samples, unchanged and in order, followed by the
\* two new ones: (startTime, operating point), (finalTime, operating point).
C2_ConcatAppendsTwoSamples ==
    [][(call'.op = "get" /\ call'.concatOutput) =>
          /\ outs'[1].timeTrajectory =
                outs[1].timeTrajectory \o <<call'.startTime, call'.finalTime>>
          /\ outs'[1].stateTrajectory = outs[1].stateTrajectory \o TwoStates(prov[1])
          /\ outs'[1].inputTrajectory = outs[1].inputTrajectory \o TwoInputs(prov[1])]_vars

C2_Witness ==
    /\ call.op = "get" /\ call.concatOutput
    /\ EqualLengths(outs[1])
    /\ Len(outs[1].timeTrajectory) = 4
    /\ outs[1].timeTrajectory[1] # outs[1].timeTrajectory[2]
    /\ made[prov[1]].state # StateZero

\* C3 as claimed (Spec): on output sequences that start empty, after calls
\* that each have startTime <= finalTime, with any mix of concatOutput, the
\* time stamps are non-decreasing.
C3_TimeNonDecreasing ==
    discipline \in {"adjacent", "ordered"} => NonDecreasing(outs[1].timeTrajectory)

\* C3 as amended (Spec): on output sequences that start empty, after calls
\* that each have startTime <= finalTime and, when concatOutput = true,
\* startTime no earlier than the last time stamp already present, the time
\* stamps are non-decreasing.
C3_AdjacentTimeNonDecreasing ==
    discipline = "adjacent" => NonDecreasing(outs[1].timeTrajectory)

C3_Witness ==
    /\ discipline = "adjacent"
    /\ call.op = "get" /\ call.concatOutput
    /\ Len(outs[1].timeTrajectory) = 4
    /\ outs[1].timeTrajectory[1] < outs[1].timeTrajectory[4]

\* C4 (SpecPrior): a call made on three sequences of equal length leaves
\* three sequences of equal length, whatever its arguments; so sequences that
\* start with equal lengths have equal lengths after every call.
C4_EqualLengthsPreserved ==
    [][EqualLengths(outs[1]) => EqualLengths(outs'[1])]_vars

C4_Witness ==
    /\ call.op = "get" /\ call.concatOutput
    /\ EqualLengths(outs[1])
    /\ Len(outs[1].timeTrajectory) = 3

\* C6 (Spec): no operation changes the provider's operating point, and a
\* call with concatOutput = false that repeats the call made just before it
\* leaves the output sequences as that call left them, whatever
\* initializeModel, clone and other calls came earlier.
C6_RepeatedCallSameOutput ==
    [][/\ heap'[prov'[1]].stateOperatingPoint_ = heap[prov[1]].stateOperatingPoint_
       /\ heap'[prov'[1]].inputOperatingPoint_ = heap[prov[1]].inputOperatingPoint_
       /\ (call'.op = "get" /\ ~call'.concatOutput /\ call' = call) => outs' = outs]_vars

C6_Witness ==
    /\ call.op = "get" /\ ~call.concatOutput
    /\ heap[prov[1]].logicRulesMachine # NoMachine
    /\ prov[2] # 0
    /\ heap[prov[2]].logicRulesMachine # heap[prov[1]].logicRulesMachine
    /\ Len(outs[1].timeTrajectory) = 2

\* a reversed interval was written at the end of the time sequence
ReversedEmitted ==
    /\ Len(outs[1].timeTrajectory) >= 2
    /\ LastTwo(outs[1].timeTrajectory) = <<call.startTime, call.finalTime>>

\* C10 as claimed (Spec): a call with startTime > finalTime does not put the
\* reversed pair [startTime, finalTime] into the time sequence.
C10_ReversedIntervalRejected ==
    (call.op = "get" /\ call.startTime > call.finalTime) => ~ReversedEmitted

\* C10 as amended (Spec): a call with startTime > finalTime is carried out
\* like any other: the output sequences end with the samples
\* (startTime, operating point), (finalTime, operating point), the time
\* stamps in decreasing order, and are never left empty.
C10_ReversedIntervalEmitted ==
    (call.op = "get" /\ call.startTime > call.finalTime) =>
        /\ ReversedEmitted
        /\ EqualLengths(outs[1])
        /\ LastTwo(outs[1].stateTrajectory) = TwoStates(prov[1])
        /\ LastTwo(outs[1].inputTrajectory) = TwoInputs(prov[1])
        /\ ~call.concatOutput => Len(outs[1].timeTrajectory) = 2

C10_Witness ==
    /\ call.op = "get" /\ call.startTime > call.finalTime
    /\ Len(outs[1].timeTrajectory) = 4
    /\ ~NonDecreasing(outs[1].timeTrajectory)


\* the operating point fields of a provider object
OperatingPoint(obj) == <<obj.stateOperatingPoint_, obj.inputOperatingPoint_>>
Binding(obj) == <<obj.logicRulesMachine, obj.partitionIndex>>

\* C5 (SpecClone): a clone holds the operating point its source held when it
\* was cloned; afterwards no call changes the operating point of any
\* provider, and a call that changes the binding of one context's provider
\* or writes its output sequences leaves every other context's provider and
\* output sequences as they were, whichever of the two is the clone.
C5_CloneIndependent ==
    [][/\ \A a \in Addresses :
            made'[a].cloned =>
                /\ heap'[a] # Free
                /\ OperatingPoint(heap'[a]) = <<made'[a].state, made'[a].input>>
       /\ \A c \in Contexts :
            prov[c] # 0 =>
                /\ prov'[c] = prov[c]
                /\ OperatingPoint(heap'[prov[c]]) = OperatingPoint(heap[prov[c]])
       /\ \A c \in Contexts, d \in Contexts :
            (c # d /\ prov[c] # 0 /\ prov[d] # 0
               /\ (heap'[prov[c]] # heap[prov[c]] \/ outs'[c] # outs[c])) =>
                (heap'[prov[d]] = heap[prov[d]] /\ outs'[d] = outs[d])]_vars

C5_Witness ==
    /\ prov[2] # 0
    /\ made[prov[2]].cloned
    /\ OperatingPoint(heap[prov[2]]) = OperatingPoint(heap[prov[1]])
    /\ heap[prov[1]].stateOperatingPoint_ # StateZero
    /\ heap[prov[1]].logicRulesMachine = "lrmB"
    /\ heap[prov[2]].logicRulesMachine = "lrmA"
    /\ heap[prov[2]].partitionIndex = 0
    /\ Len(outs[1].timeTrajectory) = 2
    /\ Len(outs[2].timeTrajectory) = 2

\* what a call of context c yields when the context runs alone: its provider
\* holds the operating point the original was constructed with
SoloResult(c, startTime, finalTime, concatOutput) ==
    LET o == IF concatOutput THEN outs[c] ELSE EmptyTrajectories
    IN [timeTrajectory |-> o.timeTrajectory \o <<startTime, finalTime>>,
        stateTrajectory |-> o.stateTrajectory \o <<made[1].state, made[1].state>>,
        inputTrajectory |-> o.inputTrajectory \o <<made[1].input, made[1].input>>]

\* C9 (SpecClone): no two contexts hold the same provider object, and every
\* step of every interleaving writes the output sequences of at most one
\* context, leaving them as a call of that context run alone would.
C9_ContextsIsolated ==
    [][/\ \A c \in Contexts, d \in Contexts :
            (c # d /\ prov'[c] # 0) => prov'[c] # prov'[d]
       /\ \E c \in Contexts :
            /\ \A d \in Contexts : d # c => outs'[d] = outs[d]
            /\ \/ outs'[c] = outs[c]
               \/ \E finalTime \in PartitionEnds(c), concatOutput \in BOOLEAN :
                    outs'[c] = SoloResult(c, PartitionStart(c), finalTime, concatOutput)]_vars

C9_Witness ==
    /\ \A c \in Contexts : prov[c] # 0 /\ Len(outs[c].timeTrajectory) = 4
    /\ \A c \in Contexts : heap[prov[c]].partitionIndex = c - 1
    /\ outs[1].timeTrajectory = <<0, 1, 0, 0>>
    /\ outs[2].timeTrajectory = <<1, 1, 1, 2>>
    /\ made[1].input # InputZero

\* C7 (SpecPair): two providers constructed the same way, asked the same
\* requests on the same output content, hold equal output sequences, however
\* their initialState arguments differ and however each was bound: never,
\* once, again, to whichever machine and partition.
C7_OutputIgnoresInitialStateAndBinding ==
    (/\ made[prov[1]].how = made[prov[2]].how
     /\ made[prov[1]].state = made[prov[2]].state
     /\ made[prov[1]].input = made[prov[2]].input) => outs[1] = outs[2]

C7_Witness ==
    /\ made[prov[1]].how = "explicit" /\ made[prov[2]].how = "explicit"
    /\ made[prov[1]].state # StateZero
    /\ call.op = "get" /\ ~call.sameInitialState
    /\ heap[prov[1]].logicRulesMachine = NoMachine
    /\ Binding(heap[prov[2]]) = <<"lrmB", 1>>
    /\ Len(outs[1].stateTrajectory) = 4

\* C8 (SpecPair): a default-constructed provider and one constructed with the
\* all-zero state and input vectors hold the same operating point and, asked
\* the same requests, equal output sequences, also after both were cloned
\* and bound.
C8_DefaultIsZeroConstructed ==
    (/\ made[prov[1]].how = "default"
     /\ made[prov[2]].how = "explicit"
     /\ made[prov[2]].state = [i \in 1..STATE_DIM |-> 0]
     /\ made[prov[2]].input = [i \in 1..INPUT_DIM |-> 0]) =>
        /\ OperatingPoint(heap[prov[1]]) = OperatingPoint(heap[prov[2]])
        /\ outs[1] = outs[2]

C8_Witness ==
    /\ made[prov[1]].how = "default" /\ made[prov[2]].how = "explicit"
    /\ made[prov[1]].cloned /\ made[prov[2]].cloned
    /\ call.op = "get" /\ call.sameInitialState
    /\ Binding(heap[prov[1]]) = Binding(heap[prov[2]])
    /\ heap[prov[1]].logicRulesMachine # NoMachine
    /\ Len(outs[1].stateTrajectory) = 4
    /\ outs[2].stateTrajectory[4] = StateZero

====
